---- MODULE Spec2Model ----
(***************************************************************************)
(* IndexedFastaReader (nucleus/io/indexed_fasta_reader.cc): the reader's   *)
(* store handle, its single-slot read cache, GetBases, Close, the          *)
(* destructor, and the record iterable built on GetBases.                  *)
(*                                                                         *)
(* Strings are sequences of one-character strings.  The FASTA store is     *)
(* deterministic: every contig has fixed mixed-case content, and a fetch   *)
(* fails (len <= 0) exactly when it touches an unreadable position.        *)
(***************************************************************************)
EXTENDS Integers, Sequences, FiniteSets, TLC

\* Bounds of the model.
MaxLen == 3          \* n_bases of the longest contig
MaxCache == 3        \* largest cache_size_bases handed to FromFile (from -1)
MaxCalls == 4        \* calls recorded in the worked example
MaxWriterCalls == 5  \* operations on one VcfWriter

VARIABLES
    contigs_,            \* catalog, in FASTA order: <<[name, n_bases, pos_in_fasta]>>
    cache_size_bases_,   \* cache budget
    unreadable,          \* store positions <<name, pos>> whose fetch fails
    faidx_,              \* TRUE: handle open; FALSE: nullptr (closed)
    cached_range_,       \* optional<Range>: NoRange or [reference_name, start, end]
    small_read_cache_,   \* bases of cached_range_
    reader_alive,        \* FALSE once the reader object is destroyed
    iter,                \* the live iterable: [live, pos_]
    records,             \* history: the records the iterable has yielded
    aborted,             \* a fatal CHECK / ValueOrDie ended the process
    last,                \* history: the last call and its outcome
    fasta_n_bases,       \* bases per contig the FASTA file holds (the index may say more)
    calls,               \* history: the calls of the worked example, in order
    thr,                 \* per thread: the locals of its GetBases call in progress
    raced,               \* history: two GetBases calls have overlapped in time
    writer               \* the VcfWriter object, its htsFile and its call history

vars == <<contigs_, cache_size_bases_, unreadable, faidx_, cached_range_,
          small_read_cache_, reader_alive, iter, records, aborted, last,
          fasta_n_bases, calls, thr, raced, writer>>

----------------------------------------------------------------------------
\* Plain helpers.

Min(a, b) == IF a <= b THEN a ELSE b

Max(a, b) == IF a >= b THEN a ELSE b

\* absent optional<Range>
NoRange == [reference_name |-> "", start |-> 0, end |-> 0, present |-> FALSE]

MakeRange(name, s, e) ==
    [reference_name |-> name, start |-> s, end |-> e, present |-> TRUE]

\* std::string::substr(pos, count): [pos, min(pos + count, size))
Substr(str, pos, count) ==
    SubSeq(str, pos + 1, Min(pos + Max(count, 0), Len(str)))

ToUpperChar(c) ==
    CASE c = "a" -> "A"
      [] c = "c" -> "C"
      [] c = "g" -> "G"
      [] c = "t" -> "T"
      [] c = "n" -> "N"
      [] OTHER -> c

AsciiStrToUpper(str) == [i \in 1..Len(str) |-> ToUpperChar(str[i])]

----------------------------------------------------------------------------
\* The FASTA file behind the faidx handle.

BasePattern == <<"a", "C", "g", "T", "n", "A", "c">>

NameOffset(name) ==
    CASE name = "chr1" -> 0
      [] name = "chr2" -> 3
      [] OTHER -> 5

\* content of a contig of n bases
FastaBases(name, n) ==
    [i \in 1..n |-> BasePattern[((i - 1 + NameOffset(name)) % Len(BasePattern)) + 1]]

FullCatalog ==
    << [name |-> "chr1", n_bases |-> MaxLen, pos_in_fasta |-> 0],
       [name |-> "chr2", n_bases |-> 1, pos_in_fasta |-> 1],
       [name |-> "chr3", n_bases |-> 0, pos_in_fasta |-> 2] >>

Catalogs == { <<>>, FullCatalog }

UnreadableSets == { {}, { <<"chr1", MaxLen - 1>> } }

ContigNames == { contigs_[i].name : i \in 1..Len(contigs_) }

\* GenomeReference::Contig(name): the ContigInfo, or NotFound
Contig(name) ==
    IF name \in ContigNames
    THEN [ok |-> TRUE,
          info |-> contigs_[CHOOSE i \in 1..Len(contigs_) : contigs_[i].name = name]]
    ELSE [ok |-> FALSE, info |-> [name |-> "", n_bases |-> 0, pos_in_fasta |-> 0]]

\* faidx_fetch_seq(faidx, c_name, start, end_inclusive, &len)
faidx_fetch_seq(c_name, p_beg, p_end) ==
    LET c == Contig(c_name) IN
    IF ~c.ok THEN [len |-> -2, bases |-> <<>>]
    ELSE IF p_beg < 0 \/ p_end < p_beg \/ p_end >= c.info.n_bases
         THEN [len |-> -1, bases |-> <<>>]
    ELSE IF \E p \in p_beg..p_end : <<c_name, p>> \in unreadable
         THEN [len |-> -1, bases |-> <<>>]
    ELSE \* the read stops where the file ends
         LET p_last == Min(p_end, fasta_n_bases - 1) IN
         IF p_last < p_beg THEN [len |-> 0, bases |-> <<>>]
         ELSE [len |-> p_last - p_beg + 1,
               bases |-> SubSeq(FastaBases(c_name, c.info.n_bases),
                                p_beg + 1, p_last + 1)]

----------------------------------------------------------------------------
\* GenomeReference helpers used by GetBases.

IsValidInterval(range) ==
    LET c == Contig(range.reference_name) IN
    /\ c.ok
    /\ 0 <= range.start
    /\ range.start <= range.end
    /\ range.end <= c.info.n_bases

RangeContains(haystack, needle) ==
    /\ needle.reference_name = haystack.reference_name
    /\ needle.start >= haystack.start
    /\ needle.end <= haystack.end

----------------------------------------------------------------------------
\* IndexedFastaReader::GetBases, step by step.  The cache slot is passed in
\* (crange, cbases) so that one request can be evaluated against any slot.

\* variant: the request length is not compared with the budget
UseCache_IgnoresLength(range) == cache_size_bases_ > 0

UseCache(range) ==
    /\ cache_size_bases_ > 0
    /\ range.end - range.start <= cache_size_bases_

\* variant: compares the coordinates only, not the contig
CacheHit_AnyContig(range, crange) ==
    /\ crange.present
    /\ range.start >= crange.start
    /\ range.end <= crange.end

\* variant: only the start of the request is looked for in the window
CacheHit_StartOnly(range, crange) ==
    /\ crange.present
    /\ range.reference_name = crange.reference_name
    /\ range.start >= crange.start
    /\ range.start < crange.end

CacheHit(range, crange) ==
    /\ crange.present
    /\ RangeContains(crange, range)

\* variant: slices the cached bases at the absolute start, not the offset
HitResult_AbsoluteStart(range, crange, cbases) ==
    Substr(cbases, range.start, range.end - range.start)

\* variant: slices from the offset to the end of the cached bases
HitResult_ToWindowEnd(range, crange, cbases) ==
    Substr(cbases, range.start - crange.start, Len(cbases))

HitResult(range, crange, cbases) ==
    Substr(cbases, range.start - crange.start, range.end - range.start)

\* variant: fetches the request itself, without the window expansion
ExpandedRange_NoExpansion(range) ==
    MakeRange(range.reference_name, range.start, range.end)

\* variant: the window not clipped to the contig
ExpandedRange_NoClip(range) ==
    MakeRange(range.reference_name, range.start, range.start + cache_size_bases_)

ExpandedRange(range) ==
    MakeRange(range.reference_name, range.start,
              Min(range.start + cache_size_bases_,
                  Contig(range.reference_name).info.n_bases))

RangeToFetch(range) ==
    IF UseCache(range) THEN ExpandedRange(range) ELSE range

\* variant: the exclusive end handed to the store as it is
FetchCall_ExclusiveEnd(rtf) ==
    [c_name |-> rtf.reference_name, p_beg |-> rtf.start, p_end |-> rtf.end]

\* the faidx_fetch_seq call GetBases issues for range_to_fetch
FetchCall(rtf) ==
    [c_name |-> rtf.reference_name, p_beg |-> rtf.start, p_end |-> rtf.end - 1]

\* variant: returns the whole fetched window
MissReturn_WholeWindow(range, result) == result

MissReturn(range, result) == Substr(result, 0, range.end - range.start)

\* what a call returns and leaves behind
Outcome(status, value, fetched, crange, cbases) ==
    [status |-> status, value |-> value, fetched |-> fetched,
     cached_range |-> crange, small_read_cache |-> cbases]

\* variant: a failed fetch drops the cache entry
FetchFailed_DropsCache(call, crange, cbases) ==
    Outcome("InvalidArgument", <<>>, <<call>>, NoRange, <<>>)

\* if (len <= 0) return InvalidArgument
FetchFailed(call, crange, cbases) ==
    Outcome("InvalidArgument", <<>>, <<call>>, crange, cbases)

\* variant: the request, not the fetched window, is recorded as cached_range_
FetchBases_InstallsRequest(range, crange, cbases) ==
    LET rtf == RangeToFetch(range)
        call == FetchCall(rtf)
        f == faidx_fetch_seq(call.c_name, call.p_beg, call.p_end)
        result == AsciiStrToUpper(f.bases)
    IN  IF f.len <= 0 THEN FetchFailed(call, crange, cbases)
        ELSE IF UseCache(range)
             THEN Outcome("OK", MissReturn(range, result), <<call>>, range, result)
             ELSE Outcome("OK", result, <<call>>, crange, cbases)

\* the fetch and what follows it
\* variant: every successful fetch is installed, cached mode or not
FetchBases_AlwaysInstalls(range, crange, cbases) ==
    LET rtf == RangeToFetch(range)
        call == FetchCall(rtf)
        f == faidx_fetch_seq(call.c_name, call.p_beg, call.p_end)
        result == AsciiStrToUpper(f.bases)
    IN  IF f.len <= 0 THEN FetchFailed(call, crange, cbases)
        ELSE Outcome("OK", MissReturn(range, result), <<call>>, rtf, result)

FetchBases(range, crange, cbases) ==
    LET rtf == RangeToFetch(range)
        call == FetchCall(rtf)
        f == faidx_fetch_seq(call.c_name, call.p_beg, call.p_end)
        result == AsciiStrToUpper(f.bases)
    IN  IF f.len <= 0 THEN FetchFailed(call, crange, cbases)
        ELSE IF UseCache(range)
             THEN Outcome("OK", MissReturn(range, result), <<call>>, rtf, result)
             ELSE Outcome("OK", result, <<call>>, crange, cbases)

\* a valid, non-empty range on an open reader
ReadBases(range, crange, cbases) ==
    IF UseCache(range) /\ CacheHit(range, crange)
    THEN IF range.start - crange.start > Len(cbases)
         THEN Outcome("Fatal", <<>>, <<>>, crange, cbases)     \* substr throws
         ELSE Outcome("OK", HitResult(range, crange, cbases), <<>>, crange, cbases)
    ELSE IF UseCache(range) /\ ~Contig(range.reference_name).ok
         THEN Outcome("Fatal", <<>>, <<>>, crange, cbases)     \* ValueOrDie
    ELSE IF UseCache(range) /\ ~IsValidInterval(RangeToFetch(range))
         THEN Outcome("Fatal", <<>>, <<>>, crange, cbases)     \* CHECK
    ELSE FetchBases(range, crange, cbases)

\* variant: no interval check
CheckedGetBases_NoIntervalCheck(range, crange, cbases) ==
    IF range.start = range.end
    THEN Outcome("OK", <<>>, <<>>, crange, cbases)
    ELSE ReadBases(range, crange, cbases)

\* variant: no shortcut for the empty range
CheckedGetBases_NoEmptyShortcut(range, crange, cbases) ==
    IF ~IsValidInterval(range)
    THEN Outcome("InvalidArgument", <<>>, <<>>, crange, cbases)
    ELSE ReadBases(range, crange, cbases)

\* the interval check and the empty-range shortcut
CheckedGetBases(range, crange, cbases) ==
    IF ~IsValidInterval(range)
    THEN Outcome("InvalidArgument", <<>>, <<>>, crange, cbases)
    ELSE IF range.start = range.end
    THEN Outcome("OK", <<>>, <<>>, crange, cbases)
    ELSE ReadBases(range, crange, cbases)

GetBasesIn(range, crange, cbases) ==
    IF ~faidx_
    THEN Outcome("FailedPrecondition", <<>>, <<>>, crange, cbases)
    ELSE CheckedGetBases(range, crange, cbases)

GetBases(range) == GetBasesIn(range, cached_range_, small_read_cache_)

\* variant: the handle is destroyed but not set to nullptr
Close_KeepsHandle ==
    IF ~faidx_
    THEN [status |-> "FailedPrecondition", faidx |-> faidx_]
    ELSE [status |-> "OK", faidx |-> faidx_]

\* IndexedFastaReader::Close
Close ==
    IF ~faidx_
    THEN [status |-> "FailedPrecondition", faidx |-> faidx_]
    ELSE [status |-> "OK", faidx |-> FALSE]

----------------------------------------------------------------------------
\* The calls.

\* requested coordinates: one below zero and one beyond the contig end included
Starts(name) == -1 .. Contig(name).info.n_bases

Ends(name) == 0 .. (Contig(name).info.n_bases + 1)

RequestNames == ContigNames \cup {"chrX"}

\* history record of a call; before is the cached window the call found
Call(op, range, status, value, fetched, more) ==
    [op |-> op, range |-> range, status |-> status, value |-> value,
     fetched |-> fetched, more |-> more, before |-> cached_range_]

Threads == {1, 2}

\* a thread that is not inside GetBases
IdleThread ==
    [pc |-> "idle", range |-> NoRange, range_to_fetch |-> NoRange, seen |-> NoRange,
     result |-> <<>>, status |-> "OK", value |-> <<>>]

\* the variables of the threads, which the single-threaded calls leave alone
threads == <<thr, raced>>

\* VcfWriter right after ToFile: fp_ and header_ set, the htsFile open
OpenedWriter ==
    [fp_ |-> TRUE, header_ |-> TRUE, handle |-> "open", alive |-> TRUE,
     crashed |-> FALSE, written |-> 0, hts_close_calls |-> 0, calls |-> 0,
     close_returned |-> FALSE,
     last |-> [op |-> "ToFile", status |-> "OK", after_close |-> FALSE]]

\* the reader as the constructor leaves it (lines 85-92), no call made yet
Constructed ==
    /\ faidx_ = TRUE
    /\ cached_range_ = NoRange
    /\ small_read_cache_ = <<>>
    /\ reader_alive = TRUE
    /\ iter = [live |-> FALSE, pos_ |-> 0]
    /\ records = <<>>
    /\ aborted = FALSE
    /\ last = Call("FromFile", NoRange, "OK", <<>>, <<>>, FALSE)
    /\ calls = <<>>
    /\ thr = [t \in Threads |-> IdleThread]
    /\ raced = FALSE
    /\ writer = OpenedWriter

Init ==
    /\ contigs_ \in Catalogs
    /\ cache_size_bases_ \in -1..MaxCache      \* FromFile takes any int
    /\ unreadable \in UnreadableSets
    /\ fasta_n_bases = MaxLen                  \* the file holds what the index says
    /\ Constructed

\* one call of GetBases(range) by the only thread
DoGetBases(range) ==
    LET r == GetBases(range)
    IN /\ cached_range_' = r.cached_range
       /\ small_read_cache_' = r.small_read_cache
       /\ aborted' = (r.status = "Fatal")
       /\ last' = Call("GetBases", range, r.status, r.value, r.fetched, FALSE)
       /\ UNCHANGED <<contigs_, cache_size_bases_, unreadable, faidx_, reader_alive,
                      iter, records, fasta_n_bases, threads, writer>>

CallGetBases ==
    /\ reader_alive /\ ~aborted
    /\ \E name \in RequestNames :
       \E s \in Starts(name), e \in Ends(name) :
          DoGetBases(MakeRange(name, s, e))
    /\ UNCHANGED calls

CallClose ==
    /\ reader_alive /\ ~aborted
    /\ faidx_' = Close.faidx
    /\ last' = Call("Close", NoRange, Close.status, <<>>, <<>>, FALSE)
    /\ UNCHANGED <<contigs_, cache_size_bases_, unreadable, cached_range_,
                   small_read_cache_, reader_alive, iter, records, aborted,
                   fasta_n_bases, calls, threads, writer>>

\* ~IndexedFastaReader: closes an open handle; the live iterable loses its reader
Destroy ==
    /\ reader_alive /\ ~aborted
    /\ IF faidx_
       THEN /\ faidx_' = Close.faidx
            /\ aborted' = (Close.status # "OK")        \* TF_CHECK_OK
       ELSE UNCHANGED <<faidx_, aborted>>
    /\ reader_alive' = FALSE
    /\ last' = Call("Destroy", NoRange, "OK", <<>>, <<>>, FALSE)
    /\ UNCHANGED <<contigs_, cache_size_bases_, unreadable, cached_range_,
                   small_read_cache_, iter, records, fasta_n_bases, calls,
                   threads, writer>>

CallIterate ==
    /\ reader_alive /\ ~aborted
    /\ iter' = [live |-> TRUE, pos_ |-> 0]
    /\ records' = <<>>
    /\ last' = Call("Iterate", NoRange, "OK", <<>>, <<>>, FALSE)
    /\ UNCHANGED <<contigs_, cache_size_bases_, unreadable, faidx_, cached_range_,
                   small_read_cache_, reader_alive, aborted, fasta_n_bases, calls,
                   threads, writer>>

\* Iterable::CheckIsAlive
CheckIsAlive == IF reader_alive THEN "OK" ELSE "FailedPrecondition"

\* variant: the contig read from its second base
NextRange_SkipsFirstBase(pos) ==
    MakeRange(contigs_[pos + 1].name, Min(1, contigs_[pos + 1].n_bases),
              contigs_[pos + 1].n_bases)

\* variant: the end of the contig taken as its last position
NextRange_ShortByOne(pos) ==
    MakeRange(contigs_[pos + 1].name, 0, contigs_[pos + 1].n_bases - 1)

\* the range Next asks GetBases for at pos_
NextRange(pos) ==
    MakeRange(contigs_[pos + 1].name, 0, contigs_[pos + 1].n_bases)

CallNext ==
    /\ iter.live /\ ~aborted
    /\ IF CheckIsAlive # "OK"
       THEN /\ last' = Call("Next", NoRange, CheckIsAlive, <<>>, <<>>, FALSE)
            /\ UNCHANGED <<cached_range_, small_read_cache_, iter, records, aborted>>
       ELSE IF iter.pos_ >= Len(contigs_)
       THEN /\ last' = Call("Next", NoRange, "OK", <<>>, <<>>, FALSE)
            /\ UNCHANGED <<cached_range_, small_read_cache_, iter, records, aborted>>
       ELSE LET range == NextRange(iter.pos_)
                r == GetBases(range)
            IN IF r.status # "OK"
               THEN \* ValueOrDie on an error status
                    /\ aborted' = TRUE
                    /\ last' = Call("Next", range, "Fatal", <<>>, r.fetched, FALSE)
                    /\ UNCHANGED <<cached_range_, small_read_cache_, iter, records>>
               ELSE /\ cached_range_' = r.cached_range
                    /\ small_read_cache_' = r.small_read_cache
                    /\ records' = Append(records, <<range.reference_name, r.value>>)
                    /\ iter' = [iter EXCEPT !.pos_ = @ + 1]
                    /\ last' = Call("Next", range, "OK", r.value, r.fetched, TRUE)
                    /\ UNCHANGED aborted
    /\ UNCHANGED <<contigs_, cache_size_bases_, unreadable, faidx_, reader_alive,
                   fasta_n_bases, calls, threads, writer>>

Next == CallGetBases \/ CallClose \/ Destroy \/ CallIterate \/ CallNext

Spec == Init /\ [][Next]_vars

----------------------------------------------------------------------------
\* The worked example: one contig chr1 of 1000 bases behind a reader with a
\* budget of 100 bases, and calls of GetBases with the example's four ranges
\* in any order, each recorded in calls.

ExampleCatalog == << [name |-> "chr1", n_bases |-> 1000, pos_in_fasta |-> 0] >>

ExampleRequests ==
    << MakeRange("chr1", 0, 50), MakeRange("chr1", 10, 60),
       MakeRange("chr1", 90, 150), MakeRange("chr1", 950, 1000) >>

InitExample ==
    /\ contigs_ = ExampleCatalog
    /\ cache_size_bases_ = 100
    /\ unreadable = {}
    /\ fasta_n_bases = 1000
    /\ Constructed

CallExample ==
    /\ reader_alive /\ ~aborted
    /\ Len(calls) < MaxCalls
    /\ \E i \in 1..Len(ExampleRequests) : DoGetBases(ExampleRequests[i])
    /\ calls' = Append(calls, last')

NextExample == CallExample

SpecExample == InitExample /\ [][NextExample]_vars

----------------------------------------------------------------------------
\* A FASTA file that holds fewer bases of chr1 than its index says: the store
\* returns what is there, a positive length shorter than the one asked for.

InitTruncated ==
    /\ contigs_ = FullCatalog
    /\ cache_size_bases_ \in -1..MaxCache
    /\ unreadable = {}
    /\ fasta_n_bases \in 1..(MaxLen - 1)
    /\ Constructed

SpecTruncated == InitTruncated /\ [][Next]_vars

----------------------------------------------------------------------------
\* Two threads calling GetBases on one open reader with no lock. A step is one
\* read or one write of cached_range_ or of small_read_cache_, or the store
\* call; range, range_to_fetch and result are locals of the call. A thread at
\* "idle" holds the range and the return of its last call.

InitConcurrent ==
    /\ contigs_ = FullCatalog
    /\ cache_size_bases_ \in 1..MaxCache
    /\ unreadable = {}
    /\ fasta_n_bases = MaxLen
    /\ Constructed

\* the reader state no GetBases writes
fixed == <<contigs_, cache_size_bases_, unreadable, faidx_, reader_alive, iter,
           records, last, fasta_n_bases, calls, writer>>

InFlight(t) == thr[t].pc # "idle"

\* thread t moves on to local state rec; raced notes a call in flight beside it
Step(t, rec) ==
    /\ thr' = [thr EXCEPT ![t] = rec]
    /\ raced' = (raced \/ \E u \in Threads \ {t} : InFlight(u))

\* thread t returns from its call
Return(t, status, value) ==
    Step(t, [IdleThread EXCEPT !.range = thr[t].range, !.status = status,
                               !.value = value])

\* lines 100-116: the checks of a valid non-empty range on the open reader
ThreadCall(t) ==
    /\ ~aborted /\ faidx_ /\ ~InFlight(t)
    /\ \E name \in ContigNames :
       \E s \in Starts(name), e \in Ends(name) :
          LET range == MakeRange(name, s, e)
          IN /\ IsValidInterval(range) /\ s < e
             /\ Step(t, [IdleThread EXCEPT !.pc = "lookup", !.range = range])
    /\ UNCHANGED <<fixed, cached_range_, small_read_cache_, aborted>>

\* lines 119-137: the read of cached_range_ that decides hit or miss
ThreadLookup(t) ==
    /\ ~aborted /\ thr[t].pc = "lookup"
    /\ LET range == thr[t].range
       IN IF UseCache(range) /\ CacheHit(range, cached_range_)
          THEN Step(t, [thr[t] EXCEPT !.pc = "hit"])
          ELSE Step(t, [thr[t] EXCEPT !.pc = "fetch",
                                      !.range_to_fetch = RangeToFetch(range)])
    /\ UNCHANGED <<fixed, cached_range_, small_read_cache_, aborted>>

\* line 123: the read of cached_range_->start() for the offset
ThreadHitWindow(t) ==
    /\ ~aborted /\ thr[t].pc = "hit"
    /\ Step(t, [thr[t] EXCEPT !.pc = "hit_substr", !.seen = cached_range_])
    /\ UNCHANGED <<fixed, cached_range_, small_read_cache_, aborted>>

\* lines 122-124: small_read_cache_.substr(offset, length); substr throws
\* when the offset is beyond the string
ThreadHitSubstr(t) ==
    /\ ~aborted /\ thr[t].pc = "hit_substr"
    /\ LET range == thr[t].range
           offset == range.start - thr[t].seen.start
       IN IF offset < 0 \/ offset > Len(small_read_cache_)
          THEN /\ Return(t, "Fatal", <<>>)
               /\ aborted' = TRUE
          ELSE /\ Return(t, "OK", HitResult(range, thr[t].seen, small_read_cache_))
               /\ UNCHANGED aborted
    /\ UNCHANGED <<fixed, cached_range_, small_read_cache_>>

\* lines 145-153: the store call and the upper-casing into result
ThreadFetch(t) ==
    /\ ~aborted /\ thr[t].pc = "fetch"
    /\ LET call == FetchCall(thr[t].range_to_fetch)
           f == faidx_fetch_seq(call.c_name, call.p_beg, call.p_end)
           result == AsciiStrToUpper(f.bases)
       IN IF f.len <= 0 THEN Return(t, "InvalidArgument", <<>>)
          ELSE IF UseCache(thr[t].range)
          THEN Step(t, [thr[t] EXCEPT !.pc = "install_bases", !.result = result])
          ELSE Return(t, "OK", result)
    /\ UNCHANGED <<fixed, cached_range_, small_read_cache_, aborted>>

\* line 157: small_read_cache_ = result
ThreadInstallBases(t) ==
    /\ ~aborted /\ thr[t].pc = "install_bases"
    /\ small_read_cache_' = thr[t].result
    /\ Step(t, [thr[t] EXCEPT !.pc = "install_range"])
    /\ UNCHANGED <<fixed, cached_range_, aborted>>

\* line 158: cached_range_ = range_to_fetch
ThreadInstallRange(t) ==
    /\ ~aborted /\ thr[t].pc = "install_range"
    /\ cached_range_' = thr[t].range_to_fetch
    /\ Step(t, [thr[t] EXCEPT !.pc = "slice"])
    /\ UNCHANGED <<fixed, small_read_cache_, aborted>>

\* lines 160-162: the read of small_read_cache_ for the returned prefix
ThreadSlice(t) ==
    /\ ~aborted /\ thr[t].pc = "slice"
    /\ Return(t, "OK", MissReturn(thr[t].range, small_read_cache_))
    /\ UNCHANGED <<fixed, cached_range_, small_read_cache_, aborted>>

NextConcurrent ==
    \E t \in Threads :
        \/ ThreadCall(t)
        \/ ThreadLookup(t)
        \/ ThreadHitWindow(t)
        \/ ThreadHitSubstr(t)
        \/ ThreadFetch(t)
        \/ ThreadInstallBases(t)
        \/ ThreadInstallRange(t)
        \/ ThreadSlice(t)

SpecConcurrent == InitConcurrent /\ [][NextConcurrent]_vars

----------------------------------------------------------------------------
\* VcfWriter (vcf_writer.cc): Write, Close and the destructor on one writer.
\* handle is the htsFile behind fp_: hts_close releases it whatever it
\* returns, so a non-null fp_ over a "closed" handle is a dangling pointer.

\* the IndexedFastaReader variables, which the writer leaves alone
reader == <<contigs_, cache_size_bases_, unreadable, faidx_, cached_range_,
            small_read_cache_, reader_alive, iter, records, aborted, last,
            fasta_n_bases, calls, thr, raced>>

\* what bcf_write(fp_, ...) can do: on an open file it writes or fails; on a
\* released htsFile it is a use after free
BcfWriteOutcomes(w) ==
    IF w.handle = "open" THEN {"written", "error"}
    ELSE {"nothing", "error", "crash"}

\* what hts_close(fp_) can do: on an open file the close succeeds or reports
\* an error; on a released htsFile it is a second free
HtsCloseOutcomes(w) ==
    IF w.handle = "open" THEN {"closed", "error"}
    ELSE {"closed", "error", "crash"}

\* VcfWriter::Write, lines 244-263
WriterWrite(w, bcf_init_ok, convert_ok, bcf_write) ==
    IF ~w.fp_ THEN [status |-> "FailedPrecondition", w |-> w]
    ELSE IF ~bcf_init_ok THEN [status |-> "Unknown", w |-> w]
    ELSE IF ~convert_ok THEN [status |-> "ConvertFromPb", w |-> w]
    ELSE IF bcf_write = "crash"
         THEN [status |-> "Fatal", w |-> [w EXCEPT !.crashed = TRUE]]
    ELSE IF bcf_write = "error" THEN [status |-> "Unknown", w |-> w]
    ELSE IF bcf_write = "written"
         THEN [status |-> "OK", w |-> [w EXCEPT !.written = @ + 1]]
    ELSE [status |-> "OK", w |-> w]

\* VcfWriter::Close, lines 265-275
WriterClose(w, hts_close) ==
    IF ~w.fp_ THEN [status |-> "FailedPrecondition", w |-> w]
    ELSE LET c == [w EXCEPT !.hts_close_calls = @ + 1, !.handle = "closed"]
         IN IF hts_close = "crash"
            THEN [status |-> "Fatal", w |-> [c EXCEPT !.crashed = TRUE]]
            ELSE IF hts_close = "error"
            THEN [status |-> "Unknown", w |-> c]
            ELSE [status |-> "OK",
                  w |-> [c EXCEPT !.fp_ = FALSE, !.header_ = FALSE]]

\* the writer after a call by its owner: counted and recorded
Called(w, op, status, returned) ==
    [w EXCEPT !.calls = writer.calls + 1,
              !.close_returned = returned,
              !.last = [op |-> op, status |-> status,
                        after_close |-> writer.close_returned]]

InitWriter ==
    /\ contigs_ = <<>>
    /\ cache_size_bases_ = 0
    /\ unreadable = {}
    /\ fasta_n_bases = 0
    /\ Constructed

CallWriterWrite ==
    /\ writer.alive /\ ~writer.crashed
    /\ writer.calls < MaxWriterCalls
    /\ \E bcf_init_ok \in BOOLEAN, convert_ok \in BOOLEAN :
       \E bcf_write \in BcfWriteOutcomes(writer) :
          LET r == WriterWrite(writer, bcf_init_ok, convert_ok, bcf_write)
          IN writer' = Called(r.w, "Write", r.status, writer.close_returned)
    /\ UNCHANGED reader

CallWriterClose ==
    /\ writer.alive /\ ~writer.crashed
    /\ writer.calls < MaxWriterCalls
    /\ \E hts_close \in HtsCloseOutcomes(writer) :
          LET r == WriterClose(writer, hts_close)
          IN writer' = Called(r.w, "Close", r.status,
                              writer.close_returned \/ r.status # "Fatal")
    /\ UNCHANGED reader

\* VcfWriter::~VcfWriter, lines 236-242: TF_CHECK_OK(Close()) on a non-null fp_
DestroyWriter ==
    /\ writer.alive /\ ~writer.crashed
    /\ IF writer.fp_
       THEN \E hts_close \in HtsCloseOutcomes(writer) :
               LET r == WriterClose(writer, hts_close)
                   status == IF r.status = "OK" THEN "OK" ELSE "Fatal"
               IN writer' = [Called(r.w, "Destroy", status, writer.close_returned)
                               EXCEPT !.alive = FALSE,
                                      !.crashed = (status = "Fatal")]
       ELSE writer' = [Called(writer, "Destroy", "OK", writer.close_returned)
                         EXCEPT !.alive = FALSE]
    /\ UNCHANGED reader

NextWriter == CallWriterWrite \/ CallWriterClose \/ DestroyWriter

SpecWriter == InitWriter /\ [][NextWriter]_vars

----------------------------------------------------------------------------
\* Reference notions the properties are stated with.

LowerChars == {"a", "c", "g", "t", "n"}

AllRanges ==
    UNION { { MakeRange(n, s, e) : s \in Starts(n), e \in Ends(n) } :
            n \in RequestNames }

ContigLen(name) == Contig(name).info.n_bases

\* the store's content of [start, end) of the contig, upper-cased
StoreContent(range) ==
    [i \in 1..(range.end - range.start) |->
        ToUpperChar(FastaBases(range.reference_name,
                               ContigLen(range.reference_name))[range.start + i])]

\* what an open reader with caching disabled returns for the call
UncachedReader(range) ==
    IF ~IsValidInterval(range) THEN [status |-> "InvalidArgument", value |-> <<>>]
    ELSE IF range.start = range.end THEN [status |-> "OK", value |-> <<>>]
    ELSE LET f == faidx_fetch_seq(range.reference_name, range.start, range.end - 1)
         IN IF f.len <= 0 THEN [status |-> "InvalidArgument", value |-> <<>>]
            ELSE [status |-> "OK", value |-> AsciiStrToUpper(f.bases)]

\* the last call went through GetBases and returned bases
ReturnedBases ==
    /\ last.op \in {"GetBases", "Next"}
    /\ last.range.present
    /\ last.status = "OK"

CacheSlotUnchanged ==
    /\ cached_range_' = cached_range_
    /\ small_read_cache_' = small_read_cache_

----------------------------------------------------------------------------
\* C1: every successful GetBases returns the store's upper-cased content of
\* the requested interval, the same string a reader with caching disabled
\* returns for that call, whether it was a hit, a miss or uncached.
C1_CacheTransparent ==
    ReturnedBases =>
        /\ last.value = StoreContent(last.range)
        /\ UncachedReader(last.range) = [status |-> "OK", value |-> last.value]

\* a cache hit served from inside the window, at a non-zero offset
C1_Witness ==
    /\ last.op = "GetBases" /\ last.status = "OK"
    /\ last.fetched = <<>>
    /\ Len(last.value) > 0
    /\ cached_range_.present
    /\ cached_range_.start < last.range.start

\* C2 (as stated): after a successful non-empty GetBases(name, a, b) with
\* b - a <= C, the next GetBases(name, a', b') with a <= a' and
\* b' <= min(a + C, contigLen) does not invoke the store, whatever the cache
\* held before the first call.
C2_FirstCall ==
    /\ last.op = "GetBases" /\ last.status = "OK"
    /\ last.range.start < last.range.end
    /\ last.range.end - last.range.start <= cache_size_bases_

C2_SecondCall ==
    /\ last'.op = "GetBases"
    /\ last'.range.reference_name = last.range.reference_name
    /\ last.range.start <= last'.range.start

C2_Budget == Min(last.range.start + cache_size_bases_, ContigLen(last.range.reference_name))

C2_ContainmentLawAsStated ==
    [][ (C2_FirstCall /\ C2_SecondCall /\ last'.range.end <= C2_Budget)
            => last'.fetched = <<>> ]_vars

\* C2 (amended): the law holds up to the end of the window the first call left
\* in the cache; that window is [a, min(a + C, contigLen)) when the first call
\* fetched from the store, and the older window that served it when it was a hit.
C2_ContainmentLaw ==
    [][ (C2_FirstCall /\ C2_SecondCall) =>
            /\ cached_range_.present
            /\ (last.fetched # <<>> => cached_range_.end = C2_Budget)
            /\ cached_range_.end <= C2_Budget
            /\ (last'.range.end <= cached_range_.end => last'.fetched = <<>>) ]_vars

\* a hit that starts after the start of the window a miss installed
C2_Witness ==
    /\ last.op = "GetBases" /\ last.status = "OK"
    /\ last.fetched = <<>>
    /\ last.range.start < last.range.end
    /\ cached_range_.present
    /\ cached_range_.start < last.range.start
    /\ last.range.end = cached_range_.end
    /\ cached_range_.end = Min(cached_range_.start + cache_size_bases_,
                               ContigLen(cached_range_.reference_name))

\* C3: a successful GetBases of a valid range returns exactly end - start
\* characters, none of them lower-case.
C3_LengthAndCase ==
    ReturnedBases =>
        /\ IsValidInterval(last.range)
        /\ Len(last.value) = last.range.end - last.range.start
        /\ \A i \in 1..Len(last.value) : last.value[i] \notin LowerChars

\* a miss in cached mode that returned less than the window it fetched,
\* from store content that holds lower-case bases
C3_Witness ==
    /\ last.op = "GetBases" /\ last.status = "OK"
    /\ last.fetched # <<>>
    /\ Len(last.value) > 0
    /\ Len(last.value) < Len(small_read_cache_)
    /\ \E i \in (last.range.start + 1)..last.range.end :
          FastaBases(last.range.reference_name,
                     ContigLen(last.range.reference_name))[i] \in LowerChars

\* C4: a store fetch of non-positive length makes GetBases return
\* InvalidArgument and leaves the cache slot as it was; every range that was
\* a hit before the call is a hit returning the same string after it.
C4_FetchFailedInCall ==
    /\ last'.op = "GetBases"
    /\ last'.fetched # <<>>
    /\ faidx_fetch_seq(last'.fetched[1].c_name, last'.fetched[1].p_beg,
                       last'.fetched[1].p_end).len <= 0

C4_FailedFetchKeepsCache ==
    [][ C4_FetchFailedInCall =>
            /\ last'.status = "InvalidArgument"
            /\ CacheSlotUnchanged
            /\ \A q \in AllRanges :
                  (UseCache(q) /\ CacheHit(q, cached_range_)) =>
                      /\ CacheHit(q, cached_range_')
                      /\ GetBasesIn(q, cached_range_', small_read_cache_')
                            = GetBases(q) ]_vars

\* a failed fetch of an expansion window while the cache holds an entry
C4_Witness ==
    /\ last.op = "GetBases" /\ last.status = "InvalidArgument"
    /\ last.fetched # <<>>
    /\ UseCache(last.range)
    /\ cached_range_.present
    /\ Len(small_read_cache_) > 0

\* C5: once Close() has succeeded, every GetBases and every Close returns
\* FailedPrecondition without store access or cache change; nothing reopens
\* the reader; Close() on an open reader succeeds.
C5_ClosedStaysClosed ==
    [][ /\ (~faidx_ => ~faidx_')
        /\ (~faidx_ /\ last'.op \in {"GetBases", "Close"}) =>
              /\ last'.status = "FailedPrecondition"
              /\ last'.fetched = <<>>
              /\ last'.value = <<>>
              /\ CacheSlotUnchanged
        /\ (faidx_ /\ last'.op = "Close") =>
              /\ last'.status = "OK"
              /\ ~faidx_' ]_vars

\* GetBases of a valid non-empty range refused on a closed reader whose
\* cache still holds an entry
C5_Witness ==
    /\ ~faidx_ /\ reader_alive
    /\ last.op = "GetBases" /\ last.status = "FailedPrecondition"
    /\ IsValidInterval(last.range)
    /\ last.range.start < last.range.end
    /\ cached_range_.present

\* C6: on an open reader GetBases with start > end, end > contig length,
\* negative start or an unknown reference_name returns InvalidArgument,
\* without invoking the store and without changing the cache slot.
C6_Malformed(range) ==
    \/ range.reference_name \notin ContigNames
    \/ range.start > range.end
    \/ range.end > ContigLen(range.reference_name)
    \/ range.start < 0

C6_InvalidRangeRejected ==
    [][ (faidx_ /\ last'.op = "GetBases" /\ C6_Malformed(last'.range)) =>
            /\ last'.status = "InvalidArgument"
            /\ last'.fetched = <<>>
            /\ CacheSlotUnchanged ]_vars

\* a request reaching past the contig end, refused while the cache holds an entry
C6_Witness ==
    /\ faidx_
    /\ last.op = "GetBases" /\ last.status = "InvalidArgument"
    /\ last.fetched = <<>>
    /\ last.range.reference_name \in ContigNames
    /\ 0 <= last.range.start /\ last.range.start < last.range.end
    /\ last.range.end > ContigLen(last.range.reference_name)
    /\ cached_range_.present

\* C7: on an open reader GetBases of a valid range with start = end (the
\* contig end included) returns "" with no store call and no cache change.
C7_EmptyValid(range) ==
    /\ range.reference_name \in ContigNames
    /\ 0 <= range.start
    /\ range.start = range.end
    /\ range.end <= ContigLen(range.reference_name)

C7_EmptyRange ==
    [][ (faidx_ /\ last'.op = "GetBases" /\ C7_EmptyValid(last'.range)) =>
            /\ last'.status = "OK"
            /\ last'.value = <<>>
            /\ last'.fetched = <<>>
            /\ CacheSlotUnchanged ]_vars

\* the empty range at the end of a non-empty contig, cache budget positive
C7_Witness ==
    /\ faidx_ /\ cache_size_bases_ > 0
    /\ last.op = "GetBases" /\ last.status = "OK"
    /\ last.value = <<>>
    /\ last.range.start = last.range.end
    /\ last.range.end = ContigLen(last.range.reference_name)
    /\ last.range.end > 0

\* C8 (as stated): on an open reader GetBases of a valid range returns the
\* same output in every reachable cache state (here: the same as with the
\* cache empty).
C8_Output(o) == [status |-> o.status, value |-> o.value]

C8_OpenReader == faidx_ /\ reader_alive /\ ~aborted

C8_IdempotenceAsStated ==
    C8_OpenReader =>
        \A q \in AllRanges : IsValidInterval(q) =>
            C8_Output(GetBases(q)) = C8_Output(GetBasesIn(q, NoRange, <<>>))

\* C8 (amended): two calls with the same valid range return identical strings
\* whenever both succeed, in any two cache states; two calls in a row return
\* identical outputs; and with a fully readable store the outputs are identical
\* in every cache state.  (Whether a call succeeds can depend on the cache
\* state when the expansion window reaches an unreadable part of the contig.)
C8_Idempotence ==
    C8_OpenReader =>
        \A q \in AllRanges : IsValidInterval(q) =>
            LET r == GetBases(q)
                f == GetBasesIn(q, NoRange, <<>>)
                again == GetBasesIn(q, r.cached_range, r.small_read_cache)
            IN /\ (r.status = "OK" /\ f.status = "OK") => r.value = f.value
               /\ C8_Output(again) = C8_Output(r)
               /\ unreadable = {} => C8_Output(r) = C8_Output(f)

\* a request served from the cache that an empty cache serves from the store
C8_Witness ==
    /\ C8_OpenReader
    /\ last.op = "GetBases" /\ last.status = "OK"
    /\ last.fetched = <<>>
    /\ Len(last.value) > 0
    /\ GetBasesIn(last.range, NoRange, <<>>).status = "OK"
    /\ GetBasesIn(last.range, NoRange, <<>>).fetched # <<>>
    /\ GetBasesIn(last.range, NoRange, <<>>).cached_range # cached_range_

\* C9: Next() yields the catalog's contigs once each, in catalog order, each
\* with the bases of [0, n_bases); it returns false exactly after the last
\* entry and keeps returning false, so the record count is the catalog size
\* (zero for an empty catalog).
C9_Expected(i) ==
    << contigs_[i].name,
       StoreContent(MakeRange(contigs_[i].name, 0, contigs_[i].n_bases)) >>

C9_Yielded ==
    iter.live =>
        /\ iter.pos_ = Len(records)
        /\ Len(records) <= Len(contigs_)
        /\ \A i \in 1..Len(records) : records[i] = C9_Expected(i)
        /\ (last.op = "Next" /\ last.status = "OK" /\ ~last.more)
              => Len(records) = Len(contigs_)
        /\ (last.op = "Next" /\ last.status = "OK" /\ last.more)
              => last.value = records[Len(records)][2]

C9_NextStep ==
    (iter.live /\ reader_alive /\ last'.op = "Next" /\ last'.status = "OK") =>
        IF iter.pos_ >= Len(contigs_)
        THEN ~last'.more /\ records' = records /\ iter' = iter
        ELSE /\ last'.more
             /\ records' = Append(records, C9_Expected(iter.pos_ + 1))
             /\ iter'.pos_ = iter.pos_ + 1

C9_Iteration == []C9_Yielded /\ [][C9_NextStep]_vars

\* Next() has returned false after yielding a non-empty catalog
C9_Witness ==
    /\ iter.live /\ faidx_
    /\ Len(contigs_) > 0
    /\ last.op = "Next" /\ last.status = "OK" /\ ~last.more
    /\ Len(records) = Len(contigs_)

\* C10: no sequence of Iterate/Next, GetBases and Close calls reaches a fatal
\* abort; every call returns a typed status.
C10_ErrorsAreTypedResults ==
    /\ ~aborted
    /\ last.status \in {"OK", "InvalidArgument", "FailedPrecondition", "NotFound"}

----------------------------------------------------------------------------
\* The cache policy, stated from the request alone.

\* cacheSizeBases > 0 and 0 < end - start <= cacheSizeBases
Eligible(range) ==
    /\ cache_size_bases_ > 0
    /\ 0 < range.end - range.start
    /\ range.end - range.start <= cache_size_bases_

\* the window holds the request: same contig, full containment
Contained(range, window) ==
    /\ window.present
    /\ window.reference_name = range.reference_name
    /\ window.start <= range.start
    /\ range.end <= window.end

\* W = [start, min(start + cacheSizeBases, contig length))
Window(range) ==
    MakeRange(range.reference_name, range.start,
              Min(range.start + cache_size_bases_, ContigLen(range.reference_name)))

\* the store call for the half-open interval
StoreCallFor(range) ==
    [c_name |-> range.reference_name, p_beg |-> range.start, p_end |-> range.end - 1]

\* this step is a GetBases call on an open reader
GetBasesStep == faidx_ /\ last'.op = "GetBases"

\* C12: a cache-eligible valid request that no cache entry contains invokes
\* the store exactly once, with W; on success the cache entry is exactly W
\* with W's bases, whatever was cached, and the call returns W's first
\* end - start characters.
C12_MissPath ==
    [][ (GetBasesStep /\ IsValidInterval(last'.range) /\ Eligible(last'.range)
            /\ ~Contained(last'.range, cached_range_)) =>
          LET W == Window(last'.range) IN
            /\ last'.fetched = <<StoreCallFor(W)>>
            /\ last'.status \in {"OK", "InvalidArgument"}
            /\ last'.status = "OK" =>
                  /\ cached_range_' = W
                  /\ small_read_cache_' = StoreContent(W)
                  /\ last'.value = SubSeq(StoreContent(W), 1,
                                          last'.range.end - last'.range.start) ]_vars

\* a miss that replaced an entry of another contig by a window longer than
\* the request
C12_Witness ==
    /\ last.op = "GetBases" /\ last.status = "OK"
    /\ last.fetched # <<>>
    /\ cached_range_ = Window(last.range)
    /\ cached_range_.end > last.range.end
    /\ last.before.present
    /\ last.before.reference_name # last.range.reference_name

\* C13: a cache-eligible request contained in the cached window returns
\* bases[start - window.start : end - window.start] with no store access and
\* leaves window and bases as they were.
C13_HitPath ==
    [][ (GetBasesStep /\ Eligible(last'.range)
            /\ Contained(last'.range, cached_range_)) =>
            /\ last'.status = "OK"
            /\ last'.value = SubSeq(small_read_cache_,
                                    last'.range.start - cached_range_.start + 1,
                                    last'.range.end - cached_range_.start)
            /\ last'.fetched = <<>>
            /\ CacheSlotUnchanged ]_vars

\* a hit strictly inside the window: after its start and before its end
C13_Witness ==
    /\ last.op = "GetBases" /\ last.status = "OK"
    /\ last.fetched = <<>>
    /\ Eligible(last.range)
    /\ Contained(last.range, cached_range_)
    /\ cached_range_.start < last.range.start
    /\ last.range.end < cached_range_.end

\* C14: with cacheSizeBases <= 0 or end - start > cacheSizeBases, GetBases of
\* a valid non-empty range invokes the store exactly once with the range
\* itself, returns the upper-cased result as it is and leaves the cache entry
\* untouched.
C14_UncachedMode ==
    [][ (GetBasesStep /\ IsValidInterval(last'.range)
            /\ last'.range.start < last'.range.end
            /\ (cache_size_bases_ <= 0
                  \/ last'.range.end - last'.range.start > cache_size_bases_)) =>
            /\ last'.fetched = <<StoreCallFor(last'.range)>>
            /\ last'.status \in {"OK", "InvalidArgument"}
            /\ (last'.status = "OK" => last'.value = StoreContent(last'.range))
            /\ CacheSlotUnchanged ]_vars

\* an uncached read of a range that contains the cached window
C14_Witness ==
    /\ last.op = "GetBases" /\ last.status = "OK"
    /\ last.fetched # <<>>
    /\ cache_size_bases_ > 0
    /\ last.range.end - last.range.start > cache_size_bases_
    /\ cached_range_.present
    /\ cached_range_.reference_name = last.range.reference_name
    /\ last.range.start <= cached_range_.start
    /\ cached_range_.end <= last.range.end

\* C15 (as stated): a cache-eligible request that starts before the cached
\* window, ends past it or names another contig always invokes the store and
\* replaces the cache by the window that begins at the requested start.
C15_NotContained ==
    /\ GetBasesStep
    /\ IsValidInterval(last'.range) /\ Eligible(last'.range)
    /\ cached_range_.present
    /\ \/ last'.range.start < cached_range_.start
       \/ last'.range.end > cached_range_.end
       \/ last'.range.reference_name # cached_range_.reference_name

C15_PartialOverlapAsStated ==
    [][ C15_NotContained =>
            /\ last'.fetched # <<>>
            /\ cached_range_' = Window(last'.range)
            /\ small_read_cache_' = StoreContent(Window(last'.range)) ]_vars

\* C15 (amended): such a request always invokes the store; when the fetch
\* succeeds the cache becomes the window that begins at the requested start,
\* holding that window's bases only, and when the fetch fails the previous
\* entry stays.  No eligible request that starts before the cached window is
\* served from the cache.
C15_NoHitBeforeWindow ==
    (faidx_ /\ cached_range_.present) =>
        \A q \in AllRanges :
            (IsValidInterval(q) /\ Eligible(q)
                /\ q.reference_name = cached_range_.reference_name
                /\ q.start < cached_range_.start)
            => GetBases(q).fetched # <<>>

C15_PartialOverlapStep ==
    C15_NotContained =>
        /\ last'.fetched = <<StoreCallFor(Window(last'.range))>>
        /\ last'.status \in {"OK", "InvalidArgument"}
        /\ last'.status = "OK" =>
              /\ cached_range_' = Window(last'.range)
              /\ cached_range_'.start = last'.range.start
              /\ small_read_cache_' = StoreContent(Window(last'.range))
        /\ last'.status # "OK" => CacheSlotUnchanged

C15_PartialOverlap == []C15_NoHitBeforeWindow /\ [][C15_PartialOverlapStep]_vars

\* a request that overlaps the cached window on its left edge was fetched
\* anew: the window now starts at the request and still overlaps the old one
C15_Witness ==
    /\ last.op = "GetBases" /\ last.status = "OK"
    /\ last.fetched # <<>>
    /\ Eligible(last.range)
    /\ cached_range_ = Window(last.range)
    /\ last.before.present
    /\ last.before.reference_name = last.range.reference_name
    /\ last.range.start < last.before.start
    /\ last.before.start < last.range.end

\* C17 (as stated): with cacheSizeBases = 0 no cache entry ever exists and a
\* call makes one store call exactly when its range is valid and non-empty,
\* so that the store call count is the number of non-empty valid requests.
C17_NoEntry ==
    cache_size_bases_ = 0 => (~cached_range_.present /\ small_read_cache_ = <<>>)

C17_Request ==
    /\ cache_size_bases_ = 0
    /\ last'.op \in {"GetBases", "Next"}
    /\ last'.range.present

C17_NonEmptyValid(range) == IsValidInterval(range) /\ range.start < range.end

C17_CachingDisabledAsStated ==
    []C17_NoEntry
    /\ [][ C17_Request =>
             (Len(last'.fetched) = IF C17_NonEmptyValid(last'.range) THEN 1 ELSE 0)
         ]_vars

\* C17 (amended): the store call count is the number of non-empty valid
\* requests made while the reader is open; a request on a closed reader
\* returns FailedPrecondition without a store call.
C17_CachingDisabled ==
    []C17_NoEntry
    /\ [][ C17_Request =>
             /\ Len(last'.fetched) =
                   IF faidx_ /\ C17_NonEmptyValid(last'.range) THEN 1 ELSE 0
             /\ (last'.op = "GetBases" /\ last'.status = "OK"
                    /\ C17_NonEmptyValid(last'.range))
                  => last'.fetched = <<StoreCallFor(last'.range)>>
         ]_vars

\* with a budget of zero, the same non-empty range was read again right after
\* a successful read of it, from the store
C17_Witness ==
    /\ cache_size_bases_ = 0
    /\ last.op = "GetBases" /\ last.status = "OK"
    /\ Len(last.fetched) = 1
    /\ Len(last.value) > 0
    /\ ~cached_range_.present
    /\ iter.live /\ Len(records) > 0
    /\ records[Len(records)][1] = last.range.reference_name

\* C18: every store fetch is issued with the start of the half-open interval
\* it stands for (the request in uncached mode, the expansion window in cached
\* mode) and that interval's end minus one, inside the contig:
\* 0 <= start <= end - 1 <= contig length - 1.
C18_Asked(range) == IF Eligible(range) THEN Window(range) ELSE range

C18_BoundaryTranslation ==
    (last.op \in {"GetBases", "Next"} /\ last.fetched # <<>>) =>
        LET c == last.fetched[1]
            asked == C18_Asked(last.range)
        IN /\ Len(last.fetched) = 1
           /\ c.c_name = last.range.reference_name
           /\ c.c_name \in ContigNames
           /\ c.p_beg = asked.start
           /\ c.p_end = asked.end - 1
           /\ 0 <= c.p_beg
           /\ c.p_beg <= c.p_end
           /\ c.p_end <= ContigLen(c.c_name) - 1

\* a fetch of an expansion window clipped at the contig end, for a request
\* that ends before it
C18_Witness ==
    /\ last.op = "GetBases"
    /\ last.fetched # <<>>
    /\ Eligible(last.range)
    /\ last.range.start + cache_size_bases_ > ContigLen(last.range.reference_name)
    /\ last.fetched[1].p_end = ContigLen(last.range.reference_name) - 1
    /\ last.range.end < ContigLen(last.range.reference_name)

\* C19: a Next() that yields a contig of length L goes through GetBases: with
\* 0 < L <= cacheSizeBases it is a hit without a store call or it leaves the
\* cache holding the whole contig [0, L); with L > cacheSizeBases or no budget
\* it fetches [0, L) directly and leaves the cache as it was; with L = 0 it
\* yields the empty sequence without a store call.
C19_NextYields ==
    /\ iter.live /\ reader_alive
    /\ last'.op = "Next" /\ last'.status = "OK" /\ last'.more

C19_IterationUsesCachePath ==
    [][ C19_NextYields =>
          LET contig == contigs_[iter.pos_ + 1]
              L == contig.n_bases
              whole == MakeRange(contig.name, 0, L)
          IN /\ last'.range = whole
             /\ last'.value = StoreContent(whole)
             /\ IF L = 0
                THEN last'.fetched = <<>> /\ CacheSlotUnchanged
                ELSE IF cache_size_bases_ > 0 /\ L <= cache_size_bases_
                THEN \/ /\ Contained(whole, cached_range_)
                        /\ last'.fetched = <<>>
                        /\ CacheSlotUnchanged
                     \/ /\ ~Contained(whole, cached_range_)
                        /\ last'.fetched = <<StoreCallFor(whole)>>
                        /\ cached_range_' = whole
                        /\ small_read_cache_' = StoreContent(whole)
                ELSE /\ last'.fetched = <<StoreCallFor(whole)>>
                     /\ CacheSlotUnchanged ]_vars

\* Next() yielded a contig from the cache that an earlier call had filled
C19_Witness ==
    /\ last.op = "Next" /\ last.status = "OK" /\ last.more
    /\ last.fetched = <<>>
    /\ Len(last.value) > 0
    /\ cached_range_ = last.range

\* C11: on chr1 of length 1000 with cacheSizeBases = 100 and an empty cache,
\* GetBases(chr1,0,50), (chr1,10,60), (chr1,90,150), (chr1,950,1000) fetch
\* exactly the windows [0,100), none, [90,190), [950,1000) (cumulative store
\* call counts 1, 1, 2, 3), return 50, 50, 60 and 50 characters, and leave the
\* cache window [950,1000).
C11_Fetches ==
    << <<[c_name |-> "chr1", p_beg |-> 0, p_end |-> 99]>>,
       <<>>,
       <<[c_name |-> "chr1", p_beg |-> 90, p_end |-> 189]>>,
       <<[c_name |-> "chr1", p_beg |-> 950, p_end |-> 999]>> >>

C11_Counts == <<1, 1, 2, 3>>

C11_Lengths == <<50, 50, 60, 50>>

RECURSIVE C11_StoreCalls(_)
C11_StoreCalls(k) ==
    IF k = 0 THEN 0 ELSE C11_StoreCalls(k - 1) + Len(calls[k].fetched)

\* the first k recorded calls are the first k calls of the example
C11_Follows(k) ==
    /\ k <= Len(calls) /\ k <= Len(ExampleRequests)
    /\ \A i \in 1..k : calls[i].range = ExampleRequests[i]

C11_WorkedExample ==
    /\ \A k \in 1..Len(ExampleRequests) :
          C11_Follows(k) =>
             /\ calls[k].status = "OK"
             /\ calls[k].fetched = C11_Fetches[k]
             /\ C11_StoreCalls(k) = C11_Counts[k]
             /\ Len(calls[k].value) = C11_Lengths[k]
             /\ calls[k].value = StoreContent(calls[k].range)
    /\ (C11_Follows(Len(ExampleRequests)) /\ Len(calls) = Len(ExampleRequests)) =>
          /\ cached_range_ = MakeRange("chr1", 950, 1000)
          /\ small_read_cache_ = StoreContent(cached_range_)

\* the four calls of the example have been made in its order
C11_Witness ==
    /\ Len(calls) = Len(ExampleRequests)
    /\ C11_Follows(Len(ExampleRequests))
    /\ calls[2].before = MakeRange("chr1", 0, 100)
    /\ cached_range_ = MakeRange("chr1", 950, 1000)

\* C16: in every reachable state with a cache entry, the cached bases are as
\* many as the cached window is long and fully upper-case, whatever positive
\* length the store returned for the fetched window.
C16_CacheEntryInvariant ==
    cached_range_.present =>
        /\ Len(small_read_cache_) = cached_range_.end - cached_range_.start
        /\ \A i \in 1..Len(small_read_cache_) : small_read_cache_[i] \notin LowerChars

\* C20: two GetBases calls on one open reader (cacheSizeBases > 0) that
\* interleave at the separate reads and writes of the cached window and the
\* cached bases can leave cached bases that are not the store's content of
\* the cached window, and can return a string that is not the store's content
\* of the requested range; calls that never overlap do neither.
C20_Returned(t) == ~InFlight(t) /\ thr[t].range.present

C20_WrongReturn(t) ==
    /\ C20_Returned(t)
    /\ thr[t].status = "OK"
    /\ thr[t].value # StoreContent(thr[t].range)

C20_CacheMismatch ==
    /\ cached_range_.present
    /\ small_read_cache_ # StoreContent(cached_range_)

C20_Quiescent == \A t \in Threads : ~InFlight(t)

C20_OnlyOverlapBreaks ==
    ~raced =>
        /\ \A t \in Threads :
              C20_Returned(t) =>
                 (thr[t].status = "OK" /\ thr[t].value = StoreContent(thr[t].range))
        /\ C20_Quiescent => ~C20_CacheMismatch

\* both calls have returned, one of them a wrong string, and the cached bases
\* are not those of the cached window
C20_Witness ==
    /\ C20_Quiescent
    /\ C20_CacheMismatch
    /\ Len(small_read_cache_) # cached_range_.end - cached_range_.start
    /\ \E t \in Threads : C20_WrongReturn(t)

\* C21: whenever GetBases reaches the miss branch of cached mode (range
\* valid, start < end, 0 < end - start <= cacheSizeBases, no containing
\* entry), the contig lookup succeeds and the expansion window
\* [start, min(start + cacheSizeBases, contig length)) is a valid, non-empty
\* interval, so neither ValueOrDie nor the CHECK ends the process.
C21_MissBranch(range, crange) ==
    /\ IsValidInterval(range)
    /\ range.start < range.end
    /\ UseCache(range)
    /\ ~CacheHit(range, crange)

C21_AssertionsHold ==
    /\ \A range \in AllRanges :
          C21_MissBranch(range, cached_range_) =>
             /\ Contig(range.reference_name).ok
             /\ IsValidInterval(ExpandedRange(range))
             /\ ExpandedRange(range).start < ExpandedRange(range).end
             /\ ExpandedRange(range).start = range.start
             /\ ReadBases(range, cached_range_, small_read_cache_).status # "Fatal"
    /\ (last.op = "GetBases" /\ C21_MissBranch(last.range, last.before)) =>
          last.status # "Fatal"

\* a call took the miss branch with a window the contig end clipped, over a
\* cache entry that did not contain the request
C21_Witness ==
    /\ last.op = "GetBases" /\ last.status = "OK"
    /\ last.before.present
    /\ C21_MissBranch(last.range, last.before)
    /\ cached_range_ = ExpandedRange(last.range)
    /\ cached_range_.end - cached_range_.start < cache_size_bases_

\* C22: whenever a cache entry exists, cacheSizeBases > 0, the window names a
\* contig of the catalog, 0 <= window.start < window.end <= contig length, and
\* the window is cacheSizeBases long unless it ends at the contig end, where
\* it is shorter.
C22_CacheWindowBounds ==
    cached_range_.present =>
        /\ cache_size_bases_ > 0
        /\ cached_range_.reference_name \in ContigNames
        /\ 0 <= cached_range_.start
        /\ cached_range_.start < cached_range_.end
        /\ cached_range_.end <= ContigLen(cached_range_.reference_name)
        /\ cached_range_.end - cached_range_.start <= cache_size_bases_
        /\ \/ cached_range_.end - cached_range_.start = cache_size_bases_
           \/ cached_range_.end = ContigLen(cached_range_.reference_name)

\* an entry shorter than the budget, clipped at the end of its contig, that
\* does not start at the contig's first base
C22_Witness ==
    /\ cached_range_.present
    /\ cached_range_.start > 0
    /\ cached_range_.end - cached_range_.start < cache_size_bases_
    /\ cached_range_.end = ContigLen(cached_range_.reference_name)

\* C23: Close() changes only the store handle: not the catalog, not the cache
\* slot; a Close() that fails with FailedPrecondition changes nothing at all;
\* GetBases never changes whether the reader is open.
C23_ReaderState ==
    <<contigs_, cache_size_bases_, faidx_, cached_range_, small_read_cache_,
      reader_alive, iter>>

C23_CloseStep ==
    last'.op = "Close" =>
        /\ UNCHANGED <<contigs_, cache_size_bases_, cached_range_,
                       small_read_cache_, reader_alive, iter, unreadable,
                       fasta_n_bases>>
        /\ last'.status = "OK" => (faidx_ /\ ~faidx_')
        /\ last'.status # "OK" =>
              /\ last'.status = "FailedPrecondition"
              /\ ~faidx_
              /\ UNCHANGED C23_ReaderState

C23_GetBasesStep ==
    last'.op \in {"GetBases", "Next"} => UNCHANGED <<faidx_, contigs_>>

C23_CloseFrame == [][C23_CloseStep /\ C23_GetBasesStep]_vars

\* a second Close() has failed on a reader whose cache entry is still there
C23_Witness ==
    /\ last.op = "Close"
    /\ last.status = "FailedPrecondition"
    /\ ~faidx_
    /\ cached_range_.present
    /\ small_read_cache_ # <<>>

\* C24: over any sequence of Write, Close and destruction of a VcfWriter the
\* htsFile is closed (hts_close) at most once, and once a Close() has
\* returned, Write and Close return FailedPrecondition, also when hts_close
\* reported an error.
C24_WriterLifecycle ==
    /\ writer.hts_close_calls <= 1
    /\ (writer.last.op \in {"Write", "Close"} /\ writer.last.after_close) =>
          writer.last.status = "FailedPrecondition"

====
